---- MODULE Spec2Model ----
(***************************************************************************)
(* A model of xodium, a pure-Rust X11 client: the DISPLAY address parser   *)
(* (display.rs), the Xauthority reader (xauthority.rs), the SETUP request  *)
(* encoder (protocol/setup_request.rs, protocol.rs), the framed transport  *)
(* (framed.rs, protocol/setup_codec.rs) and the opening of a connection    *)
(* (connection.rs).                                                        *)
(*                                                                         *)
(* Text is a sequence of code points, a byte string a sequence of numbers  *)
(* in 0..255.  An Option is a record [some, v]; a Result a record          *)
(* [ok, ...].                                                              *)
(***************************************************************************)
EXTENDS Integers, Sequences, FiniteSets, TLC

VARIABLES
    \* display.rs: one Display::from_str / to_string run
    dInput,       \* the string handed to Display::from_str
    dPc,          \* "start" | "parsed" | "formatted"
    dResult,      \* the Result of from_str (NoResult before the call)
    dText,        \* the output of to_string on the parsed Display
    \* xauthority.rs: one from_reader run over a byte source
    xRecords,     \* the records the file was written from (history, not read by the code)
    xCut,         \* how many bytes of the last record are missing from the file
    xInput,       \* the file's bytes
    xPos,         \* the reader's position: bytes consumed so far
    xEntries,     \* from_reader's local `entries`
    xResult,      \* Running, or what from_reader returned
    \* protocol/setup_request.rs: one SetupRequest::new / serialize run
    sNameLen,     \* the byte length of the auth_protocol_name handed to SetupRequest::new
    sDataLen,     \* the byte length of the auth_protocol_data handed to SetupRequest::new
    sEndian,      \* the build's target_endian: "little" | "big"
    sPc,          \* "start" | "built" | "failed" | "written"
    sRequest,     \* the SetupRequest new returned, if it returned one
    sOut,         \* the bytes serialize wrote
    \* protocol.rs: one pad call
    pArg,         \* the argument of pad
    pResult,      \* what pad returned (NONE before the call)
    \* framed.rs: a Framed transport over a stream, and the calls of next on it
    fStream,      \* every byte the peer sends before closing (history, not read by the code)
    fPending,     \* the bytes the stream has not delivered yet
    fCloses,      \* whether the peer closes the stream after its last byte (else it
                  \* stays open and silent, and a read blocks)
    fErrors,      \* how many reads the stream may still fail with an I/O error
    fCodec,       \* the codec: "Lines" (tests::LinesCodec) | "Setup" (SetupCodec) |
                  \* "Any" (any other implementor of Decoder)
    read_buffer,  \* Framed::read_buffer
    fPc,          \* "idle" between calls; inside next: "decode" | "read"
    fDecodes,     \* how often the current call of next has run codec.decode (history)
    fReads,       \* how often the current call of next has run stream.read (history)
    fDecoded,     \* what the current call's last codec.decode returned (history)
    fResults,     \* what each finished call of next returned, in call order

    \* connection.rs: one call of connect_default or connect_to_display
    cEnv,         \* the DISPLAY variable of the process environment
    cSockets,     \* the display numbers whose socket path accepts a connection
    cEntry,       \* the function called: "connect_default" | "connect_to_display"
    cDisplay,     \* the Display connect_to_display works on
    cPc,          \* "start" | "checking" | "connecting" | "setup" | "returned" | "panicked"
    cIo,          \* the I/O operations attempted so far, in order (history)
    cResult,      \* what the call returned, or the panic that ended it

    \* display.rs: one Display value, formatted and parsed back
    vValue,       \* the Display a caller built
    vPc,          \* "built" | "shown" | "reparsed"
    vText,        \* the output of to_string on the value
    vBack         \* the Result of from_str on that output

dVars == <<dInput, dPc, dResult, dText>>
xVars == <<xRecords, xCut, xInput, xPos, xEntries, xResult>>
sVars == <<sNameLen, sDataLen, sEndian, sPc, sRequest, sOut>>
pVars == <<pArg, pResult>>
fVars ==
    <<fStream, fPending, fCloses, fErrors, fCodec, read_buffer, fPc, fDecodes, fReads, fDecoded,
      fResults>>
cVars == <<cEnv, cSockets, cEntry, cDisplay, cPc, cIo, cResult>>
vVars == <<vValue, vPc, vText, vBack>>

vars == <<dVars, xVars, sVars, pVars, fVars, cVars, vVars>>

------------------------------------------------------------------------------
(* Shared helpers *)

\* Bounds of the model
MaxDisplayLen == 5
MaxRecords == 2
MaxNameLen == 4
MaxDataLen == 4
MaxPadArg == 130
MaxStreamLen == 5
MaxReadErrors == 1
MaxHostLen == 2
MaxLiveStreamLen == 2

\* u16::MAX
U16_MAX == 65535

\* Characters (code points) the parsers look for
COLON == 58
DOT == 46
PLUS == 43
MINUS == 45
ZERO == 48
NINE == 57
LETTER_H == 104

NONE == -1

None == [some |-> FALSE, v |-> <<>>]
Some(x) == [some |-> TRUE, v |-> x]

\* s[from..to) with 0-based offsets, as a Rust slice
Slice(s, from, to) == SubSeq(s, from + 1, to)

\* str::find(|c| c == ch): the 0-based offset of the first ch, or NONE
find(s, ch) ==
    IF \E i \in 1..Len(s) : s[i] = ch
    THEN (CHOOSE i \in 1..Len(s) : s[i] = ch /\ \A j \in 1..(i - 1) : s[j] # ch) - 1
    ELSE NONE

IsDigit(c) == c >= ZERO /\ c <= NINE

\* The digit loop of u16::from_str: checked multiply-and-add, left to right.
\* acc is the value so far, or NONE once a digit is invalid or the value overflows.
RECURSIVE parse_digits(_, _)
parse_digits(digits, acc) ==
    IF digits = <<>> \/ acc = NONE THEN acc
    ELSE LET c == Head(digits) IN
         IF ~IsDigit(c) THEN NONE
         ELSE LET n == acc * 10 + (c - ZERO) IN
              parse_digits(Tail(digits), IF n > U16_MAX THEN NONE ELSE n)

\* str::parse::<u16>() (core::num): empty is an error, a lone sign is an error,
\* one leading '+' is accepted and skipped, '-' is an invalid digit for an
\* unsigned type, then decimal digits with overflow checking.
parse_u16(s) ==
    IF s = <<>> THEN [ok |-> FALSE, val |-> 0]
    ELSE IF Len(s) = 1 /\ (s[1] = PLUS \/ s[1] = MINUS) THEN [ok |-> FALSE, val |-> 0]
    ELSE LET digits == IF s[1] = PLUS THEN Tail(s) ELSE s
             n == parse_digits(digits, 0)
         IN IF n = NONE THEN [ok |-> FALSE, val |-> 0] ELSE [ok |-> TRUE, val |-> n]

\* u16's Display formatting: decimal, no sign, no leading zeros
RECURSIVE fmt_u16(_)
fmt_u16(n) ==
    IF n < 10 THEN <<ZERO + n>>
    ELSE Append(fmt_u16(n \div 10), ZERO + (n % 10))

------------------------------------------------------------------------------
(* display.rs *)

InvalidDisplayFormat == "InvalidDisplayFormat"
DisplayNotSet == "DisplayNotSet"

NoResult == [kind |-> "none"]
DisplayOk(hostname, display, screen) ==
    [kind |-> "Ok", hostname |-> hostname, display |-> display, screen |-> screen]
DisplayErr(e) == [kind |-> "Err", error |-> e]

\* display.rs:104-109: "" is an error, anything else goes through parse()
parse_display_segment(seg) ==
    IF seg = <<>> THEN [ok |-> FALSE, val |-> 0] ELSE parse_u16(seg)

\* Display::from_str looking for the dot in the whole string, hostname included
from_str_dot_anywhere(s) ==
    LET hostname_end == find(s, COLON)
        screen_start == find(s, DOT)
    IN
    IF hostname_end = NONE THEN DisplayErr(InvalidDisplayFormat)
    ELSE
      LET hostname == IF hostname_end = 0 THEN None ELSE Some(Slice(s, 0, hostname_end))
          display_end == IF screen_start = NONE THEN Len(s) ELSE screen_start
          display == parse_display_segment(Slice(s, hostname_end + 1, display_end))
          screen == IF screen_start = NONE THEN [ok |-> TRUE, val |-> 0]
                    ELSE parse_u16(Slice(s, screen_start + 1, Len(s)))
      IN
      IF ~display.ok \/ ~screen.ok THEN DisplayErr(InvalidDisplayFormat)
      ELSE DisplayOk(hostname, display.val,
                     IF screen_start = NONE THEN None ELSE Some(screen.val))

\* Display::from_str
from_str(s) ==
    LET hostname_end == find(s, COLON) IN
    IF hostname_end = NONE THEN DisplayErr(InvalidDisplayFormat)
    ELSE
      LET hostname == IF Slice(s, 0, hostname_end) = <<>>
                      THEN None
                      ELSE Some(Slice(s, 0, hostname_end))
          rest == Slice(s, hostname_end + 1, Len(s))
          screen_start == find(rest, DOT)
          display_end == IF screen_start = NONE THEN Len(rest) ELSE screen_start
          display == parse_display_segment(Slice(rest, 0, display_end))
      IN
      IF ~display.ok THEN DisplayErr(InvalidDisplayFormat)
      ELSE IF screen_start = NONE
           THEN DisplayOk(hostname, display.val, None)
           ELSE LET screen == parse_u16(Slice(rest, screen_start + 1, Len(rest))) IN
                IF ~screen.ok THEN DisplayErr(InvalidDisplayFormat)
                ELSE DisplayOk(hostname, display.val, Some(screen.val))

\* to_string with the screen segment always written (a missing screen as 0)
to_string_always_screen(d) ==
    (IF d.hostname.some THEN d.hostname.v ELSE <<>>)
        \o <<COLON>> \o fmt_u16(d.display)
        \o <<DOT>> \o fmt_u16(IF d.screen.some THEN d.screen.v ELSE 0)

\* impl fmt::Display for Display (to_string)
to_string(d) ==
    (IF d.hostname.some THEN d.hostname.v ELSE <<>>)
        \o <<COLON>> \o fmt_u16(d.display)
        \o (IF d.screen.some THEN <<DOT>> \o fmt_u16(d.screen.v) ELSE <<>>)

\* The inputs: every string over a small alphabet up to MaxDisplayLen characters,
\* and addresses whose numerals sit at the edges of u16.
DisplayAlphabet == {ZERO, ZERO + 1, COLON, DOT, PLUS, LETTER_H}
ShortStrings == UNION {[1..n -> DisplayAlphabet] : n \in 0..MaxDisplayLen}
Numeral65535 == <<54, 53, 53, 51, 53>>
Numeral65536 == <<54, 53, 53, 51, 54>>
Numeral99999 == <<57, 57, 57, 57, 57>>
Numeral007 == <<48, 48, 55>>
EdgeNumerals == {Numeral65535, Numeral65536, Numeral99999, Numeral007, <<ZERO>>}
EdgeStrings ==
    {h \o <<COLON>> \o d : h \in {<<>>, <<LETTER_H>>}, d \in EdgeNumerals}
    \cup {h \o <<COLON>> \o d \o <<DOT>> \o s :
            h \in {<<>>, <<LETTER_H>>}, d \in EdgeNumerals, s \in EdgeNumerals}
DisplayInputs == ShortStrings \cup EdgeStrings

DisplayInit ==
    /\ dInput \in DisplayInputs
    /\ dPc = "start"
    /\ dResult = NoResult
    /\ dText = <<>>

\* No Display is being parsed
DisplayIdle ==
    /\ dInput = <<>>
    /\ dPc = "idle"
    /\ dResult = NoResult
    /\ dText = <<>>

\* A caller runs Display::from_str on the input
CallFromStr ==
    /\ dPc = "start"
    /\ dResult' = from_str(dInput)
    /\ dPc' = "parsed"
    /\ UNCHANGED <<dInput, dText, xVars, sVars, pVars, fVars, cVars, vVars>>

\* The caller formats the parsed Display (as the tests do: from_str(..).unwrap().to_string())
CallToString ==
    /\ dPc = "parsed"
    /\ dResult.kind = "Ok"
    /\ dText' = to_string(dResult)
    /\ dPc' = "formatted"
    /\ UNCHANGED <<dInput, dResult, xVars, sVars, pVars, fVars, cVars, vVars>>

DisplayNext == CallFromStr \/ CallToString

------------------------------------------------------------------------------
(* utils.rs, xauthority/connection_family.rs, xauthority.rs *)

Min(a, b) == IF a < b THEN a ELSE b

\* ReadBytesExt::read_u16_be: read_exact of two bytes, big-endian.  A source
\* with fewer than two bytes left fails with UnexpectedEof (what was left is gone).
read_u16_be(input, pos) ==
    IF pos + 2 <= Len(input)
    THEN [ok |-> TRUE, val |-> input[pos + 1] * 256 + input[pos + 2], pos |-> pos + 2]
    ELSE [ok |-> FALSE, val |-> 0, pos |-> Len(input)]

\* read_sized_string: a u16 length, then take(len).read_to_end, which stops at
\* len bytes or at end of file, whichever comes first, and is Ok either way.
read_sized_string(input, pos) ==
    LET len == read_u16_be(input, pos) IN
    IF ~len.ok THEN [ok |-> FALSE, bytes |-> <<>>, pos |-> len.pos]
    ELSE LET n == Min(len.val, Len(input) - len.pos) IN
         [ok |-> TRUE, bytes |-> Slice(input, len.pos, len.pos + n), pos |-> len.pos + n]

\* ConnectionFamily::try_from with a catch-all arm that falls back to Wild
try_from_fallback(raw_family) ==
    CASE raw_family = 252 -> Some("LocalHost")
      [] raw_family = 253 -> Some("Krb5Principal")
      [] raw_family = 254 -> Some("Netname")
      [] raw_family = 256 -> Some("Local")
      [] OTHER -> Some("Wild")

\* ConnectionFamily::try_from
try_from(raw_family) ==
    CASE raw_family = 252 -> Some("LocalHost")
      [] raw_family = 253 -> Some("Krb5Principal")
      [] raw_family = 254 -> Some("Netname")
      [] raw_family = 256 -> Some("Local")
      [] raw_family = 65535 -> Some("Wild")
      [] OTHER -> None

\* U+FFFD REPLACEMENT CHARACTER
REPLACEMENT == 65533

\* String::from_utf8_lossy on bytes that are ASCII or lone continuation bytes
\* (0x80..0xBF, never part of a valid sequence by themselves): ASCII is kept,
\* each other byte becomes U+FFFD.  The model's names hold only such bytes.
from_utf8_lossy(bytes) ==
    [i \in 1..Len(bytes) |-> IF bytes[i] < 128 THEN bytes[i] ELSE REPLACEMENT]

XAuthEntry(family, name, number, pname, data) ==
    [connection_family |-> family, display_name |-> name, display_number |-> number,
     protocol_name |-> pname, protocol_data |-> data]

EntrySome(e, pos) == [kind |-> "Some", entry |-> e, pos |-> pos]
EntryNone(pos) == [kind |-> "None", pos |-> pos]
EntryErr(e, pos) == [kind |-> "Err", error |-> e, pos |-> pos]

\* read_entry: Ok(Some(entry)), Ok(None) at end of file, or Err
read_entry(input, pos) ==
    LET raw_connection_family == read_u16_be(input, pos) IN
    IF ~raw_connection_family.ok THEN EntryNone(raw_connection_family.pos)
    ELSE
    LET connection_family == try_from(raw_connection_family.val) IN
    IF ~connection_family.some THEN EntryErr("InvalidFile", raw_connection_family.pos)
    ELSE
    LET raw_display_name == read_sized_string(input, raw_connection_family.pos) IN
    IF ~raw_display_name.ok THEN EntryErr("Io", raw_display_name.pos)
    ELSE
    LET raw_display_number == read_sized_string(input, raw_display_name.pos) IN
    IF ~raw_display_number.ok THEN EntryErr("Io", raw_display_number.pos)
    ELSE
    LET raw_protocol_name == read_sized_string(input, raw_display_number.pos) IN
    IF ~raw_protocol_name.ok THEN EntryErr("Io", raw_protocol_name.pos)
    ELSE
    LET protocol_data == read_sized_string(input, raw_protocol_name.pos) IN
    IF ~protocol_data.ok THEN EntryErr("Io", protocol_data.pos)
    ELSE
    LET display_name == from_utf8_lossy(raw_display_name.bytes)
        display_number == parse_u16(from_utf8_lossy(raw_display_number.bytes))
        protocol_name == from_utf8_lossy(raw_protocol_name.bytes)
    IN
    IF ~display_number.ok THEN EntryErr("InvalidFile", protocol_data.pos)
    ELSE EntrySome(XAuthEntry(connection_family.v, display_name, display_number.val,
                              protocol_name, protocol_data.bytes),
                   protocol_data.pos)

\* entries.push(entry) putting the new entry first
push_front(entries, entry) == <<entry>> \o entries

\* entries.push(entry)
push(entries, entry) == Append(entries, entry)

Running == [kind |-> "Running"]
ParseOk(entries) == [kind |-> "Ok", entries |-> entries]
ParseErr(e) == [kind |-> "Err", error |-> e]

\* The file format, as the tests' example files are written: a big-endian u16
\* family code, then four strings each behind a big-endian u16 length.
U16Be(n) == <<n \div 256, n % 256>>
Sized(bytes) == U16Be(Len(bytes)) \o bytes
EncodeRecord(r) ==
    U16Be(r.family) \o Sized(r.name) \o Sized(r.number) \o Sized(r.pname) \o Sized(r.data)
RECURSIVE EncodeRecords(_)
EncodeRecords(rs) ==
    IF rs = <<>> THEN <<>> ELSE EncodeRecord(Head(rs)) \o EncodeRecords(Tail(rs))

Record(family, name, number, pname, data) ==
    [family |-> family, name |-> name, number |-> number, pname |-> pname, data |-> data]

\* The records a file is written from: the tests' record (family Local, a host
\* name, display "0", a protocol name, a cookie) with one field varied at a time.
FamilyCodes == {252, 253, 254, 256, 65535, 0, 255}
NumberTexts ==
    {<<ZERO>>, <<>>, <<PLUS, ZERO + 1>>, <<ZERO, ZERO + 7>>, <<ZERO + 1, LETTER_H>>,
     Numeral65535, Numeral65536}
NameBytes == {<<LETTER_H>>, <<>>, <<LETTER_H, 171>>}
DataBytes == {<<171, 205>>, <<>>}
RecordPool ==
    {Record(f, <<LETTER_H>>, <<ZERO>>, <<77>>, <<171, 205>>) : f \in FamilyCodes}
    \cup {Record(256, <<LETTER_H>>, n, <<77>>, <<171, 205>>) : n \in NumberTexts}
    \cup {Record(256, h, <<ZERO>>, h, <<171, 205>>) : h \in NameBytes}
    \cup {Record(256, <<LETTER_H>>, <<ZERO>>, <<77>>, d) : d \in DataBytes}

XauthInit ==
    /\ xRecords \in UNION {[1..k -> RecordPool] : k \in 0..MaxRecords}
    /\ xCut \in 0..(IF xRecords = <<>> THEN 0
                    ELSE Len(EncodeRecord(xRecords[Len(xRecords)])) - 1)
    /\ xInput = LET all == EncodeRecords(xRecords) IN SubSeq(all, 1, Len(all) - xCut)
    /\ xPos = 0
    /\ xEntries = <<>>
    /\ xResult = Running

\* No Xauthority file is being read
XauthIdle ==
    /\ xRecords = <<>>
    /\ xCut = 0
    /\ xInput = <<>>
    /\ xPos = 0
    /\ xEntries = <<>>
    /\ xResult = [kind |-> "Idle"]

\* One turn of from_reader's loop: a read_entry call and the match on its result
FromReaderStep ==
    /\ xResult = Running
    /\ LET r == read_entry(xInput, xPos) IN
       /\ xPos' = r.pos
       /\ xEntries' = IF r.kind = "Some" THEN push(xEntries, r.entry) ELSE xEntries
       /\ xResult' = CASE r.kind = "Some" -> Running
                       [] r.kind = "None" -> ParseOk(xEntries)
                       [] r.kind = "Err" -> ParseErr(r.error)
    /\ UNCHANGED <<xRecords, xCut, xInput, dVars, sVars, pVars, fVars, cVars, vVars>>

XauthNext == FromReaderStep
------------------------------------------------------------------------------
(* protocol.rs, protocol/setup_request.rs *)

\* pad without the outer "% 4": 4 filler bytes for an aligned length
pad_no_wrap(e) == 4 - (e % 4)

\* pad
pad(e) == (4 - (e % 4)) % 4

PROTOCOL_MAJOR_VERSION == 11
PROTOCOL_MINOR_VERSION == 0

\* BYTE_ORDER: b'B' on a big-endian target, b'l' on a little-endian one
BYTE_ORDER_BIG == 66
BYTE_ORDER_LITTLE == 108
BYTE_ORDER(endian) == IF endian = "big" THEN BYTE_ORDER_BIG ELSE BYTE_ORDER_LITTLE

\* write_u16_ne written as write_u16_be: big-endian whatever the target
write_u16_ne_always_big(n, endian) == <<n \div 256, n % 256>>

\* WriteBytesExt::write_u16_ne: the target's byte order
write_u16_ne(n, endian) ==
    IF endian = "big" THEN <<n \div 256, n % 256>> ELSE <<n % 256, n \div 256>>

\* `len as u16`: the low 16 bits
as_u16(n) == n % (U16_MAX + 1)

\* u16::try_from(usize).is_ok()
fits_u16(n) == n <= U16_MAX

SetupRequest(name, data) == [auth_protocol_name |-> name, auth_protocol_data |-> data]

\* SetupRequest::new checking only the name's length
new_name_checked_only(auth_protocol_name, auth_protocol_data) ==
    IF ~fits_u16(Len(auth_protocol_name)) THEN None
    ELSE Some(SetupRequest(auth_protocol_name, auth_protocol_data))

\* SetupRequest::new: Some(request) for Ok, None for Err(TryFromIntError)
new(auth_protocol_name, auth_protocol_data) ==
    IF ~fits_u16(Len(auth_protocol_name)) THEN None
    ELSE IF ~fits_u16(Len(auth_protocol_data)) THEN None
    ELSE Some(SetupRequest(auth_protocol_name, auth_protocol_data))

Zeros(n) == [i \in 1..n |-> 0]

\* impl Serialize for SetupRequest, into a writer that takes every byte
serialize(self, endian) ==
    <<BYTE_ORDER(endian)>>
    \o <<0>>
    \o write_u16_ne(PROTOCOL_MAJOR_VERSION, endian)
    \o write_u16_ne(PROTOCOL_MINOR_VERSION, endian)
    \o write_u16_ne(as_u16(Len(self.auth_protocol_name)), endian)
    \o write_u16_ne(as_u16(Len(self.auth_protocol_data)), endian)
    \o <<0>>
    \o <<0>>
    \o self.auth_protocol_name
    \o Zeros(pad(Len(self.auth_protocol_name)))
    \o self.auth_protocol_data
    \o Zeros(pad(Len(self.auth_protocol_data)))

\* The names and data handed in: short ones of every length up to the bound, and
\* ones at and just past the 16-bit limit.  Byte i of a name is a letter, byte i
\* of the data a byte above 127, both varying with i.
NameOfLen(n) == [i \in 1..n |-> 97 + (i % 3)]
DataOfLen(n) == [i \in 1..n |-> 200 + (i % 5)]
NameLens == (0..MaxNameLen) \cup {U16_MAX, U16_MAX + 1}
DataLens == (0..MaxDataLen) \cup {U16_MAX, U16_MAX + 1}

SetupInit ==
    /\ sNameLen = NONE
    /\ sDataLen = NONE
    /\ sEndian \in {"little", "big"}
    /\ sPc = "start"
    /\ sRequest = None
    /\ sOut = <<>>

\* No SETUP request is being built
SetupIdle ==
    /\ sNameLen = NONE
    /\ sDataLen = NONE
    /\ sEndian = "little"
    /\ sPc = "idle"
    /\ sRequest = None
    /\ sOut = <<>>

\* A caller runs SetupRequest::new on a name and data of its choice
CallNew ==
    /\ sPc = "start"
    /\ \E n \in NameLens, d \in DataLens :
          /\ sNameLen' = n
          /\ sDataLen' = d
          /\ sRequest' = new(NameOfLen(n), DataOfLen(d))
    /\ sPc' = IF sRequest'.some THEN "built" ELSE "failed"
    /\ UNCHANGED <<sEndian, sOut, dVars, xVars, pVars, fVars, cVars, vVars>>

\* The caller serializes the request it got
CallSerialize ==
    /\ sPc = "built"
    /\ sOut' = serialize(sRequest.v, sEndian)
    /\ sPc' = "written"
    /\ UNCHANGED <<sNameLen, sDataLen, sEndian, sRequest, dVars, xVars, pVars, fVars, cVars, vVars>>

SetupNext == CallNew \/ CallSerialize

PadInit ==
    /\ pArg \in (0..MaxPadArg) \cup {U16_MAX, U16_MAX + 1}
    /\ pResult = NONE

\* pad is not being called
PadIdle ==
    /\ pArg = 0
    /\ pResult = NONE

\* A caller runs pad
CallPad ==
    /\ pResult = NONE
    /\ pResult' = pad(pArg)
    /\ UNCHANGED <<pArg, dVars, xVars, sVars, fVars, cVars, vVars>>

PadNext == CallPad

------------------------------------------------------------------------------
(* framed.rs, protocol/setup_codec.rs *)

NEWLINE == 10

\* The size of the scratch buffer of one read
READ_CHUNK == 1024

DecodeSome(item, rest) == [kind |-> "Some", item |-> item, rest |-> rest]
DecodeNone(src) == [kind |-> "None", rest |-> src]
DecodeErr(src) == [kind |-> "Err", rest |-> src]

\* LinesCodec::decode draining the whole of src, not just the first line
decode_lines_drain_all(src) ==
    LET newline_position == find(src, NEWLINE) IN
    IF newline_position = NONE THEN DecodeNone(src)
    ELSE DecodeSome(Slice(src, 0, newline_position), <<>>)

\* tests::LinesCodec::decode: without a newline Ok(None) and src untouched; else
\* drain src up to and with the first newline and return what came before it
decode_lines(src) ==
    LET newline_position == find(src, NEWLINE) IN
    IF newline_position = NONE THEN DecodeNone(src)
    ELSE DecodeSome(Slice(src, 0, newline_position),
                    Slice(src, newline_position + 1, Len(src)))

\* SetupCodec::decode returning Ok(Some(())) without looking at src
decode_setup_ready(src) == DecodeSome(<<>>, src)

\* SetupCodec::decode: always Ok(None)
decode_setup(src) == DecodeNone(src)

\* self.codec.decode(&mut self.read_buffer) of the two codecs of the repository
decode(codec, src) == IF codec = "Lines" THEN decode_lines(src) ELSE decode_setup(src)

\* trait Decoder: what decode of an arbitrary implementor may return.  Ok(None), an
\* error of its own, or Ok(Some(item)) having drained the item (here: any non-empty
\* prefix of src) from the front of src.
decode_any(src) ==
    {DecodeNone(src), DecodeErr(src)}
        \cup {DecodeSome(Slice(src, 0, k), Slice(src, k, Len(src))) : k \in 1..Len(src)}

\* The results self.codec.decode(&mut self.read_buffer) may have
decode_results(codec, src) ==
    IF codec = "Any" THEN decode_any(src) ELSE {decode(codec, src)}

\* The read bytes replace the buffer instead of being appended to it
extend_overwrite(buffer, bytes) == bytes

\* self.read_buffer.extend(&buf[0..size])
extend(buffer, bytes) == buffer \o bytes

NextOk(item) == [kind |-> "Ok", item |-> item]
NextErr(e) == [kind |-> "Err", error |-> e]

\* The match of next with an Err arm that reads on instead of returning
match_decoded_reads_on(r, results) ==
    CASE r.kind = "Some" -> [pc |-> "idle", results |-> Append(results, NextOk(r.item))]
      [] r.kind = "None" -> [pc |-> "read", results |-> results]
      [] r.kind = "Err" -> [pc |-> "read", results |-> results]

\* next: the arms of the match on decode's result: where the call goes on, and
\* what it has returned
match_decoded(r, results) ==
    CASE r.kind = "Some" -> [pc |-> "idle", results |-> Append(results, NextOk(r.item))]
      [] r.kind = "None" -> [pc |-> "read", results |-> results]
      [] r.kind = "Err" -> [pc |-> "idle", results |-> Append(results, NextErr("Decode"))]

\* self.stream.read(&mut buf) taking all avail bytes, whatever the size of buf
read_whole(avail) == avail

\* self.stream.read(&mut buf) with buf = [0u8; 1024] on a stream that has avail > 0
\* bytes at hand: the number of bytes it returns
read(avail) == Min(READ_CHUNK, avail)

\* What the peer sends: every byte string of two letters and newlines up to the
\* bound, and one line that does not fit a single read, followed by one more byte
\* (the long line is sent to the two codecs of the repository).  The arbitrary
\* codec, whose results are not a function of the bytes, gets runs of one letter.
StreamAlphabet == {97, 98, NEWLINE}
ShortStreams == UNION {[1..n -> StreamAlphabet] : n \in 0..MaxStreamLen}
LongStream == [i \in 1..(READ_CHUNK + 2) |-> IF i = READ_CHUNK + 1 THEN NEWLINE ELSE 97]
Streams == ShortStreams \cup {LongStream}
LetterStreams == {[i \in 1..n |-> 97] : n \in 0..MaxStreamLen}

\* How many bytes the stream may have at hand when read is called: a short rest
\* arrives in pieces of any size, a long one is at hand as a whole (as a Cursor's)
Available(pending) ==
    IF Len(pending) <= MaxStreamLen THEN 1..Len(pending) ELSE {Len(pending)}

\* The caller makes at most one call more than the stream could hold lines
MaxCalls == MaxStreamLen + 1

\* Framed::new over a stream that will deliver fStream and then either report end
\* of file or stay open without another byte
FramedInit ==
    /\ fCodec \in {"Lines", "Setup", "Any"}
    /\ fStream \in (IF fCodec = "Any" THEN LetterStreams ELSE Streams)
    /\ fPending = fStream
    /\ fCloses \in BOOLEAN
    /\ fErrors \in 0..MaxReadErrors
    /\ read_buffer = <<>>
    /\ fPc = "idle"
    /\ fDecodes = 0
    /\ fReads = 0
    /\ fDecoded = "none"
    /\ fResults = <<>>

\* No Framed transport exists
FramedIdle ==
    /\ fStream = <<>>
    /\ fPending = <<>>
    /\ fCloses = FALSE
    /\ fErrors = 0
    /\ fCodec = "none"
    /\ read_buffer = <<>>
    /\ fPc = "none"
    /\ fDecodes = 0
    /\ fReads = 0
    /\ fDecoded = "none"
    /\ fResults = <<>>

\* The caller calls next
CallNext ==
    /\ fPc = "idle"
    /\ Len(fResults) < MaxCalls
    /\ fPc' = "decode"
    /\ fDecodes' = 0
    /\ fReads' = 0
    /\ fDecoded' = "none"
    /\ UNCHANGED <<fStream, fPending, fCloses, fErrors, fCodec, read_buffer, fResults,
                   dVars, xVars, sVars, pVars, cVars, vVars>>

\* next: the match on self.codec.decode(&mut self.read_buffer)
Decode ==
    /\ fPc = "decode"
    /\ \E r \in decode_results(fCodec, read_buffer) :
          /\ read_buffer' = r.rest
          /\ fDecoded' = r.kind
          /\ fPc' = match_decoded(r, fResults).pc
          /\ fResults' = match_decoded(r, fResults).results
    /\ fDecodes' = fDecodes + 1
    /\ UNCHANGED <<fStream, fPending, fCloses, fErrors, fCodec, fReads,
                   dVars, xVars, sVars, pVars, cVars, vVars>>

\* next: self.stream.read(&mut buf) returns size > 0 bytes, which are appended
ReadBytes ==
    /\ fPc = "read"
    /\ \E avail \in Available(fPending) :
          LET size == read(avail) IN
          /\ read_buffer' = extend(read_buffer, SubSeq(fPending, 1, size))
          /\ fPending' = SubSeq(fPending, size + 1, Len(fPending))
    /\ fReads' = fReads + 1
    /\ fPc' = "decode"
    /\ UNCHANGED <<fStream, fCloses, fErrors, fCodec, fDecodes, fDecoded, fResults,
                   dVars, xVars, sVars, pVars, cVars, vVars>>

\* next: self.stream.read(&mut buf) returns 0: the stream is at its end
ReadEof ==
    /\ fPc = "read"
    /\ fPending = <<>>
    /\ fCloses
    /\ fResults' = Append(fResults, NextErr("UnexpectedEof"))
    /\ fReads' = fReads + 1
    /\ fPc' = "idle"
    /\ UNCHANGED <<fStream, fPending, fCloses, fErrors, fCodec, read_buffer, fDecodes, fDecoded,
                   dVars, xVars, sVars, pVars, cVars, vVars>>

\* A failing read that also throws the buffered bytes away
ReadFailsAndClears ==
    /\ fPc = "read"
    /\ fErrors > 0
    /\ fErrors' = fErrors - 1
    /\ fResults' = Append(fResults, NextErr("Io"))
    /\ read_buffer' = <<>>
    /\ fReads' = fReads + 1
    /\ fPc' = "idle"
    /\ UNCHANGED <<fStream, fPending, fCloses, fCodec, fDecodes, fDecoded,
                   dVars, xVars, sVars, pVars, cVars, vVars>>

\* next: self.stream.read(&mut buf) fails and `?` returns the error
ReadFails ==
    /\ fPc = "read"
    /\ fErrors > 0
    /\ fErrors' = fErrors - 1
    /\ fResults' = Append(fResults, NextErr("Io"))
    /\ fReads' = fReads + 1
    /\ fPc' = "idle"
    /\ UNCHANGED <<fStream, fPending, fCloses, fCodec, read_buffer, fDecodes, fDecoded,
                   dVars, xVars, sVars, pVars, cVars, vVars>>

FramedNext == CallNext \/ Decode \/ ReadBytes \/ ReadEof \/ ReadFails

------------------------------------------------------------------------------
(* connection.rs, Display::from_env *)

\* std::env::var("DISPLAY")
VarNotPresent == [kind |-> "NotPresent"]
VarNotUnicode == [kind |-> "NotUnicode"]
VarOk(v) == [kind |-> "Ok", v |-> v]

\* Display::from_env with an unset variable reported as a bad format
from_env_unset_as_invalid(var) ==
    CASE var.kind = "NotUnicode" -> DisplayErr(InvalidDisplayFormat)
      [] var.kind = "NotPresent" -> DisplayErr(InvalidDisplayFormat)
      [] var.kind = "Ok" -> from_str(var.v)

\* Display::from_env, given what env::var("DISPLAY") returns
from_env(var) ==
    CASE var.kind = "NotUnicode" -> DisplayErr(InvalidDisplayFormat)
      [] var.kind = "NotPresent" -> DisplayErr(DisplayNotSet)
      [] var.kind = "Ok" -> from_str(var.v)

\* ConnectionError and the results of the connect functions
DisplayNotAvailable(e) == [kind |-> "DisplayNotAvailable", error |-> e]
Io == [kind |-> "Io"]
ConnectErr(e) == [kind |-> "Err", error |-> e]
\* Connection { _framed: Framed::new(stream, SetupCodec::default()) }
ConnectOk == [kind |-> "Ok", codec |-> "Setup", read_buffer |-> <<>>]
Panicked(message) == [kind |-> "Panic", message |-> message]

\* "/tmp/.X11-unix/X"
DEFAULT_UNIX_X_SERVER_SOCKET_PATH ==
    <<47, 116, 109, 112, 47, 46, 88, 49, 49, 45, 117, 110, 105, 120, 47, 88>>

\* format!("{}{}", DEFAULT_UNIX_X_SERVER_SOCKET_PATH, display.display)
socket_path(display) == DEFAULT_UNIX_X_SERVER_SOCKET_PATH \o fmt_u16(display.display)

UnixConnect(path) == [op |-> "connect", path |-> path]

\* The two unimplemented! checks with the one for the screen left out
unimplemented_hostname_only(display) ==
    IF display.hostname.some
    THEN Some("not implemented: hostname connections are not supported at the moment")
    ELSE None

\* connect_to_display: the unimplemented! the Display runs into, if any
unimplemented(display) ==
    IF display.hostname.some
    THEN Some("not implemented: hostname connections are not supported at the moment")
    ELSE IF display.screen.some
    THEN Some("not implemented: screen connections are not supported at the moment")
    ELSE None

\* The Displays handed to connect_to_display
ArgHostnames == {None, Some(<<LETTER_H>>)}
ArgNumbers == {0, 1, U16_MAX}
ArgScreens == {None, Some(0), Some(1)}
ArgDisplays ==
    {DisplayOk(h, d, sc) : h \in ArgHostnames, d \in ArgNumbers, sc \in ArgScreens}

\* What DISPLAY may hold
EnvValues == {VarNotPresent, VarNotUnicode} \cup {VarOk(v) : v \in DisplayInputs}

\* The displays an X server may listen on
ServerDisplays == {0, 1}

ConnectInit ==
    /\ cEntry \in {"connect_default", "connect_to_display"}
    /\ cEnv \in (IF cEntry = "connect_default" THEN EnvValues ELSE {VarNotPresent})
    /\ cDisplay \in (IF cEntry = "connect_to_display" THEN ArgDisplays ELSE {NoResult})
    /\ cSockets \in SUBSET ServerDisplays
    /\ cPc = "start"
    /\ cIo = <<>>
    /\ cResult = NoResult

\* No connection is being opened
ConnectIdle ==
    /\ cEntry = "none"
    /\ cEnv = VarNotPresent
    /\ cDisplay = NoResult
    /\ cSockets = {}
    /\ cPc = "none"
    /\ cIo = <<>>
    /\ cResult = NoResult

\* connect_default: Display::from_env()? and the call of connect_to_display
CallConnectDefault ==
    /\ cPc = "start"
    /\ cEntry = "connect_default"
    /\ LET env_display == from_env(cEnv) IN
       IF env_display.kind = "Err"
       THEN /\ cResult' = ConnectErr(DisplayNotAvailable(env_display.error))
            /\ cPc' = "returned"
            /\ cDisplay' = cDisplay
       ELSE /\ cDisplay' = env_display
            /\ cPc' = "checking"
            /\ cResult' = cResult
    /\ UNCHANGED <<cEnv, cSockets, cEntry, cIo, dVars, xVars, sVars, pVars, fVars, vVars>>

\* A caller calls connect_to_display with a Display of its own
CallConnectToDisplay ==
    /\ cPc = "start"
    /\ cEntry = "connect_to_display"
    /\ cPc' = "checking"
    /\ UNCHANGED <<cEnv, cSockets, cEntry, cDisplay, cIo, cResult,
                   dVars, xVars, sVars, pVars, fVars, vVars>>

\* connect_to_display: the checks of hostname and screen
CheckSupported ==
    /\ cPc = "checking"
    /\ LET panic == unimplemented(cDisplay) IN
       IF panic.some
       THEN cResult' = Panicked(panic.v) /\ cPc' = "panicked"
       ELSE cResult' = cResult /\ cPc' = "connecting"
    /\ UNCHANGED <<cEnv, cSockets, cEntry, cDisplay, cIo, dVars, xVars, sVars, pVars, fVars, vVars>>

\* connect_to_display: UnixStream::connect(path)?
Connect ==
    /\ cPc = "connecting"
    /\ cIo' = Append(cIo, UnixConnect(socket_path(cDisplay)))
    /\ IF cDisplay.display \in cSockets
       THEN cResult' = cResult /\ cPc' = "setup"
       ELSE cResult' = ConnectErr(Io) /\ cPc' = "returned"
    /\ UNCHANGED <<cEnv, cSockets, cEntry, cDisplay, dVars, xVars, sVars, pVars, fVars, vVars>>

\* Connection::setup(Box::new(connection))
Setup ==
    /\ cPc = "setup"
    /\ cResult' = ConnectOk
    /\ cPc' = "returned"
    /\ UNCHANGED <<cEnv, cSockets, cEntry, cDisplay, cIo, dVars, xVars, sVars, pVars, fVars, vVars>>

ConnectNext == CallConnectDefault \/ CallConnectToDisplay \/ CheckSupported \/ Connect \/ Setup

------------------------------------------------------------------------------
(* display.rs: Display values, formatted and parsed back *)

\* Display::default() with a present screen 0
Display_default_screen_zero == DisplayOk(None, 0, Some(0))

\* impl Default for Display
Display_default == DisplayOk(None, 0, None)

\* Display::new
Display_new(hostname, display, screen) == DisplayOk(hostname, display, screen)

\* The values a caller builds: any hostname up to MaxHostLen characters (the empty
\* one and ones with colons and dots among them) or none, numbers across u16
HostAlphabet == {LETTER_H, ZERO + 1, DOT, COLON}
ValueHostnames ==
    {None} \cup {Some(h) : h \in UNION {[1..n -> HostAlphabet] : n \in 0..MaxHostLen}}
ValueNumbers == {0, 1, 7, 10, U16_MAX}
ValueScreens == {None, Some(0), Some(1), Some(U16_MAX)}
DisplayValues ==
    {Display_default}
        \cup {Display_new(h, d, sc) : h \in ValueHostnames, d \in ValueNumbers, sc \in ValueScreens}

ValueInit ==
    /\ vValue \in DisplayValues
    /\ vPc = "built"
    /\ vText = <<>>
    /\ vBack = NoResult

\* No Display value is being formatted
ValueIdle ==
    /\ vValue = NoResult
    /\ vPc = "none"
    /\ vText = <<>>
    /\ vBack = NoResult

\* The caller formats its Display
FormatValue ==
    /\ vPc = "built"
    /\ vText' = to_string(vValue)
    /\ vPc' = "shown"
    /\ UNCHANGED <<vValue, vBack, dVars, xVars, sVars, pVars, fVars, cVars>>

\* The caller parses the text it got
ParseBack ==
    /\ vPc = "shown"
    /\ vBack' = from_str(vText)
    /\ vPc' = "reparsed"
    /\ UNCHANGED <<vValue, vText, dVars, xVars, sVars, pVars, fVars, cVars>>

ValueNext == FormatValue \/ ParseBack

------------------------------------------------------------------------------
(* Specifications *)

InitDisplay ==
    DisplayInit /\ XauthIdle /\ SetupIdle /\ PadIdle /\ FramedIdle /\ ConnectIdle
    /\ ValueIdle
SpecDisplay == InitDisplay /\ [][DisplayNext]_vars

InitXauth ==
    XauthInit /\ DisplayIdle /\ SetupIdle /\ PadIdle /\ FramedIdle /\ ConnectIdle
    /\ ValueIdle
SpecXauth == InitXauth /\ [][XauthNext]_vars

InitSetup ==
    SetupInit /\ DisplayIdle /\ XauthIdle /\ PadIdle /\ FramedIdle /\ ConnectIdle
    /\ ValueIdle
SpecSetup == InitSetup /\ [][SetupNext]_vars

InitPad ==
    PadInit /\ DisplayIdle /\ XauthIdle /\ SetupIdle /\ FramedIdle /\ ConnectIdle
    /\ ValueIdle
SpecPad == InitPad /\ [][PadNext]_vars

InitFramed ==
    FramedInit /\ DisplayIdle /\ XauthIdle /\ SetupIdle /\ PadIdle /\ ConnectIdle
    /\ ValueIdle
SpecFramed == InitFramed /\ [][FramedNext]_vars

InitConnect ==
    ConnectInit /\ DisplayIdle /\ XauthIdle /\ SetupIdle /\ PadIdle /\ FramedIdle
    /\ ValueIdle
SpecConnect == InitConnect /\ [][ConnectNext]_vars

InitValue ==
    ValueInit /\ DisplayIdle /\ XauthIdle /\ SetupIdle /\ PadIdle /\ FramedIdle
    /\ ConnectIdle
SpecValue == InitValue /\ [][ValueNext]_vars

\* A call of next that can take a step takes it: decode is a computation of the
\* caller's thread, and a blocking read returns once the stream has bytes at hand or
\* is at its end.  Nothing obliges a caller to call, or a stream to fail.
\* Progress is checked on the streams of up to MaxLiveStreamLen bytes.
InitFramedLive == InitFramed /\ Len(fStream) <= MaxLiveStreamLen
SpecFramedLive ==
    /\ InitFramedLive
    /\ [][FramedNext]_vars
    /\ WF_vars(Decode)
    /\ WF_vars(ReadBytes)
    /\ WF_vars(ReadEof)

------------------------------------------------------------------------------
(* Properties of display.rs *)

IsDigits(s) == s # <<>> /\ \A i \in 1..Len(s) : IsDigit(s[i])

\* The number a run of decimal digits denotes (unbounded)
RECURSIVE NumeralValue(_)
NumeralValue(s) ==
    IF s = <<>> THEN 0
    ELSE NumeralValue(SubSeq(s, 1, Len(s) - 1)) * 10 + (s[Len(s)] - ZERO)

\* A numeral as to_string writes a u16: no superfluous leading zero, at most 65535
IsCanonicalU16(s) ==
    /\ IsDigits(s)
    /\ (Len(s) = 1 \/ s[1] # ZERO)
    /\ NumeralValue(s) <= U16_MAX

\* The text after the first colon of s
AfterColon(s) == Slice(s, find(s, COLON) + 1, Len(s))

\* s is h:d or h:d.s with h free of colons and d, s satisfying Seg
HasForm(s, Seg(_)) ==
    /\ find(s, COLON) # NONE
    /\ LET rest == AfterColon(s) IN
       \/ Seg(rest)
       \/ \E q \in 1..Len(rest) :
            /\ rest[q] = DOT
            /\ Seg(SubSeq(rest, 1, q - 1))
            /\ Seg(SubSeq(rest, q + 1, Len(rest)))

RoundTrips ==
    /\ dPc = "parsed" => dResult.kind = "Ok"
    /\ dPc = "formatted" => dText = dInput

\* C1 as stated: every h:d or h:d.s with d and s non-empty runs of decimal digits
\* parses, and formatting the parsed Display gives back the input exactly.
C1_RoundTripAnyDigits == HasForm(dInput, IsDigits) => RoundTrips

\* C1 as amended: every h:d or h:d.s whose d and s are decimal numerals without a
\* superfluous leading zero and of value at most 65535 parses, and formatting the
\* parsed Display gives back the input exactly.
C1_RoundTripCanonical == HasForm(dInput, IsCanonicalU16) => RoundTrips

C1_Witness ==
    /\ dPc = "formatted"
    /\ dInput = <<LETTER_H, COLON>> \o Numeral65535 \o <<DOT>> \o <<ZERO>>
    /\ dText = dInput

\* The inputs C2 names: no colon, an empty display segment, a dot followed by no
\* digits, or a display or screen segment that is not purely decimal digits.
IsBadDisplayString(s) ==
    \/ find(s, COLON) = NONE
    \/ LET rest == AfterColon(s)
           dot == find(rest, DOT)
           display_seg == IF dot = NONE THEN rest ELSE Slice(rest, 0, dot)
           screen_seg == IF dot = NONE THEN <<>> ELSE Slice(rest, dot + 1, Len(rest))
       IN \/ display_seg = <<>>
          \/ dot # NONE /\ screen_seg = <<>>
          \/ ~IsDigits(display_seg)
          \/ dot # NONE /\ ~IsDigits(screen_seg)

\* C2: Display::from_str returns Err(InvalidDisplayFormat) for every input that has
\* no colon, an empty display segment, a dot followed by no digits, or a display or
\* screen segment that is not purely a run of decimal digits.
C2_BadStringsRejected ==
    (dPc # "start" /\ IsBadDisplayString(dInput))
        => dResult = DisplayErr(InvalidDisplayFormat)

------------------------------------------------------------------------------
(* Properties of xauthority.rs *)

\* The five family codes and their variants, as the data model lists them
KnownFamilyCodes == {252, 253, 254, 256, 65535}
FamilyVariant(code) ==
    CASE code = 252 -> "LocalHost"
      [] code = 253 -> "Krb5Principal"
      [] code = 254 -> "Netname"
      [] code = 256 -> "Local"
      [] code = 65535 -> "Wild"

\* The decimal text of an unsigned 16-bit integer
IsU16Text(s) == IsDigits(s) /\ NumeralValue(s) <= U16_MAX

IsAscii(bytes) == \A i \in 1..Len(bytes) : bytes[i] < 128

\* A record with a known family, valid text for its names and a u16 display number
WellFormed(r) ==
    /\ r.family \in KnownFamilyCodes
    /\ IsAscii(r.name)
    /\ IsU16Text(r.number)
    /\ IsAscii(r.pname)

\* The entry a well-formed record stands for
ExpectedEntry(r) ==
    XAuthEntry(FamilyVariant(r.family), r.name, NumeralValue(r.number), r.pname, r.data)

\* The offset of record i in the file
RecordStart(i) == Len(EncodeRecords(SubSeq(xRecords, 1, i - 1)))

\* C3: an input that ends inside a record makes from_reader return an error; only
\* end-of-file at a record boundary ends the read with Ok.
C3_TruncatedInputFails ==
    (xResult.kind \in {"Ok", "Err"} /\ xCut > 0) => xResult.kind = "Err"

\* C4: on the concatenation of k well-formed records (k = 0 included) from_reader
\* returns Ok with exactly k entries, in file order, entry i carrying the family,
\* names, number and data of record i.
C4_AllRecordsParsed ==
    (xCut = 0 /\ \A i \in 1..Len(xRecords) : WellFormed(xRecords[i])) =>
        /\ xResult.kind \in {"Running", "Ok"}
        /\ Len(xEntries) <= Len(xRecords)
        /\ xEntries = [i \in 1..Len(xEntries) |-> ExpectedEntry(xRecords[i])]
        /\ xResult.kind = "Ok" =>
              xResult.entries = [i \in 1..Len(xRecords) |-> ExpectedEntry(xRecords[i])]

C4_Witness ==
    /\ xCut = 0
    /\ Len(xRecords) = 2
    /\ \A i \in 1..Len(xRecords) : WellFormed(xRecords[i])
    /\ xRecords[1] # xRecords[2]
    /\ xResult.kind = "Ok"
    /\ Len(xResult.entries) = 2

\* Record i's two family-code bytes are in the file
CarriesFamilyCode(i) == RecordStart(i) + 2 <= Len(xInput)
HasUnknownFamily(i) == CarriesFamilyCode(i) /\ xRecords[i].family \notin KnownFamilyCodes

\* C5: a 16-bit code resolves to a ConnectionFamily exactly when it is one of
\* 252, 253, 254, 256, 65535, each to a variant of its own (a fact about try_from
\* alone, evaluated over all 65536 codes in the states of the empty file); and
\* when a record carries another code, from_reader fails as a whole with
\* InvalidFile, returning no entries, and reads nothing past that code.
C5_UnknownFamilyFailsRead ==
    /\ xRecords = <<>> =>
          /\ \A code \in 0..U16_MAX :
                IF code \in KnownFamilyCodes
                THEN try_from(code) = Some(FamilyVariant(code))
                ELSE try_from(code) = None
          /\ \A c1, c2 \in KnownFamilyCodes : c1 # c2 => try_from(c1) # try_from(c2)
    /\ (xResult.kind \in {"Ok", "Err"} /\ \E i \in 1..Len(xRecords) : HasUnknownFamily(i)) =>
          /\ xResult = ParseErr("InvalidFile")
          /\ \A i \in 1..Len(xRecords) : HasUnknownFamily(i) => xPos <= RecordStart(i) + 2

C5_Witness ==
    /\ Len(xRecords) = 2
    /\ WellFormed(xRecords[1])
    /\ HasUnknownFamily(2)
    /\ Len(xEntries) = 1
    /\ xResult = ParseErr("InvalidFile")

\* C6: from_reader fails with InvalidFile whenever a record's display-number
\* string is not the decimal text of an unsigned 16-bit integer (empty, holding a
\* non-digit, or above 65535); otherwise the entry's display number is the number
\* the text denotes.  Stated for files that end at a record boundary.
C6_BadDisplayNumberFailsRead ==
    (xCut = 0 /\ xResult.kind \in {"Ok", "Err"}) =>
        /\ (\E i \in 1..Len(xRecords) : ~IsU16Text(xRecords[i].number))
              => xResult = ParseErr("InvalidFile")
        /\ (xResult.kind = "Ok" /\ \A i \in 1..Len(xRecords) : IsU16Text(xRecords[i].number))
              => /\ Len(xResult.entries) = Len(xRecords)
                 /\ \A i \in 1..Len(xRecords) :
                       xResult.entries[i].display_number = NumeralValue(xRecords[i].number)

------------------------------------------------------------------------------
(* Properties of protocol.rs and protocol/setup_request.rs *)

\* The 16-bit value at 0-based offset off of out, read in the target's byte order
NativeU16(out, off, endian) ==
    IF endian = "big"
    THEN out[off + 1] * 256 + out[off + 2]
    ELSE out[off + 1] + out[off + 2] * 256

\* C7: SetupRequest::new fails exactly when the name or the data is longer than
\* 65535 bytes, so a SetupRequest that exists has both lengths within u16 and the
\* two length fields serialize writes are the true byte lengths.
C7_NewChecksBothLengths ==
    /\ sPc \in {"built", "failed", "written"} =>
          /\ (sPc = "failed") <=> (sNameLen > 65535 \/ sDataLen > 65535)
          /\ sRequest.some <=> sPc # "failed"
    /\ sRequest.some =>
          /\ sRequest.v = SetupRequest(NameOfLen(sNameLen), DataOfLen(sDataLen))
          /\ Len(sRequest.v.auth_protocol_name) <= 65535
          /\ Len(sRequest.v.auth_protocol_data) <= 65535
    /\ sPc = "written" =>
          /\ NativeU16(sOut, 6, sEndian) = Len(sRequest.v.auth_protocol_name)
          /\ NativeU16(sOut, 8, sEndian) = Len(sRequest.v.auth_protocol_data)

C7_Witness ==
    /\ sPc = "written"
    /\ Len(sRequest.v.auth_protocol_name) = 65535
    /\ NativeU16(sOut, 6, sEndian) = 65535

\* The filler count of the alignment rule
PadOf(n) == (4 - (n % 4)) % 4

\* C8: serialize writes exactly 12 + n + pad(n) + d + pad(d) bytes: the byte-order
\* indicator, a zero byte, major version 11, minor version 0, n and d (16-bit,
\* native order), two zero bytes, the name, pad(n) zero bytes, the data, pad(d)
\* zero bytes; with n = d = 0 exactly the 12-byte header; always a multiple of 4.
C8_SerializeLayout ==
    sPc = "written" =>
        LET name == sRequest.v.auth_protocol_name
            data == sRequest.v.auth_protocol_data
            n == Len(name)
            d == Len(data)
            data_at == 12 + n + PadOf(n)
        IN
        /\ Len(sOut) = 12 + n + PadOf(n) + d + PadOf(d)
        /\ sOut[1] = (IF sEndian = "big" THEN 66 ELSE 108)
        /\ sOut[2] = 0
        /\ NativeU16(sOut, 2, sEndian) = 11
        /\ NativeU16(sOut, 4, sEndian) = 0
        /\ NativeU16(sOut, 6, sEndian) = n
        /\ NativeU16(sOut, 8, sEndian) = d
        /\ sOut[11] = 0
        /\ sOut[12] = 0
        /\ SubSeq(sOut, 13, 12 + n) = name
        /\ \A i \in 1..PadOf(n) : sOut[12 + n + i] = 0
        /\ SubSeq(sOut, data_at + 1, data_at + d) = data
        /\ \A i \in 1..PadOf(d) : sOut[data_at + d + i] = 0
        /\ Len(sOut) % 4 = 0
        /\ (n = 0 /\ d = 0) => Len(sOut) = 12

C8_Witness ==
    /\ sPc = "written"
    /\ sEndian = "little"
    /\ Len(sRequest.v.auth_protocol_name) = 3
    /\ Len(sRequest.v.auth_protocol_data) = 1
    /\ Len(sOut) = 20

\* C9: pad(n) = (4 - (n mod 4)) mod 4, so (n + pad(n)) mod 4 = 0, 0 <= pad(n) <= 3
\* and pad(0) = 0.
C9_PadAligns ==
    pResult # NONE =>
        /\ pResult = (4 - (pArg % 4)) % 4
        /\ (pArg + pResult) % 4 = 0
        /\ 0 <= pResult /\ pResult <= 3
        /\ pArg = 0 => pResult = 0

C9_Witness ==
    /\ pResult = 3
    /\ pArg % 4 = 1
    /\ pArg > 4

------------------------------------------------------------------------------
(* Properties of framed.rs *)

\* The offsets (1-based) of the newlines of s, in order
NewlinePositions(s) == {i \in 1..Len(s) : s[i] = NEWLINE}
NthNewline(s, n) ==
    CHOOSE i \in NewlinePositions(s) : Cardinality({j \in NewlinePositions(s) : j <= i}) = n

\* Line n of s: the bytes between newline n - 1 (or the start) and newline n
LineOf(s, n) ==
    SubSeq(s, IF n = 1 THEN 1 ELSE NthNewline(s, n - 1) + 1, NthNewline(s, n) - 1)

CompleteLines(s) == Cardinality(NewlinePositions(s))

\* No call so far was cut short by an I/O error of the stream
NoIoError == \A i \in 1..Len(fResults) : fResults[i] # NextErr("Io")

\* C10: with a newline-delimited codec over a stream of k complete lines and a
\* possibly-empty unterminated tail, then closed, the first k calls of next return
\* the k lines in stream order, without the newline, and call k + 1 fails with an
\* unexpected-end-of-stream error, however the stream splits its bytes over reads.
C10_LinesThenEof ==
    (fCodec = "Lines" /\ NoIoError) =>
        \A i \in 1..Len(fResults) :
            /\ i <= CompleteLines(fStream) => fResults[i] = NextOk(LineOf(fStream, i))
            /\ i = CompleteLines(fStream) + 1 => fResults[i] = NextErr("UnexpectedEof")

C10_Witness ==
    /\ fCodec = "Lines"
    /\ fStream = <<97, NEWLINE, 98, NEWLINE, 97>>
    /\ fCloses
    /\ fResults = <<NextOk(<<97>>), NextOk(<<98>>), NextErr("UnexpectedEof")>>
    /\ read_buffer = <<97>>

\* The bytes the codec has drained from the buffer into the messages returned so
\* far: for the lines codec each returned line and its newline; the setup codec
\* drains nothing.
RECURSIVE Consumed(_)
Consumed(results) ==
    IF results = <<>> THEN <<>>
    ELSE LET r == results[Len(results)]
             before == Consumed(SubSeq(results, 1, Len(results) - 1))
         IN IF r.kind = "Ok" THEN before \o r.item \o <<NEWLINE>> ELSE before

\* The bytes read from the stream so far
Delivered == SubSeq(fStream, 1, Len(fStream) - Len(fPending))

\* A step appends to the buffer exactly the bytes one read took off the stream
AppendsRead ==
    \E k \in 1..Len(fPending) :
        /\ read_buffer' = read_buffer \o SubSeq(fPending, 1, k)
        /\ fPending' = SubSeq(fPending, k + 1, Len(fPending))
        /\ fResults' = fResults

\* A step removes one complete message, newline included, from the buffer's front
\* and returns that message
RemovesMessage ==
    \E k \in 1..Len(read_buffer) :
        /\ read_buffer[k] = NEWLINE
        /\ read_buffer' = SubSeq(read_buffer, k + 1, Len(read_buffer))
        /\ fResults' = Append(fResults, NextOk(SubSeq(read_buffer, 1, k - 1)))
        /\ fPending' = fPending

\* The only ways a step may change the buffer and the stream
BufferStep ==
    fCodec \in {"Lines", "Setup"} =>
        \/ read_buffer' = read_buffer /\ fPending' = fPending
        \/ AppendsRead
        \/ RemovesMessage

\* C11: in every reachable state of a Framed transport the bytes consumed into
\* returned messages followed by the read buffer are exactly the bytes read from
\* the stream so far, in order; and the buffer changes only by appending the bytes
\* a read returned or by the codec removing a complete message from its front.
C11_BufferAccountsForStream ==
    /\ [](fCodec \in {"Lines", "Setup"} => Consumed(fResults) \o read_buffer = Delivered)
    /\ [][BufferStep]_vars

\* Two lines were returned and an unterminated tail is still buffered
C11_Witness ==
    /\ fCodec = "Lines"
    /\ fStream = <<97, NEWLINE, NEWLINE, 98, 98>>
    /\ fResults = <<NextOk(<<97>>), NextOk(<<>>)>>
    /\ read_buffer = <<98, 98>>
    /\ fPending = <<>>

\* Within a call decode attempts and stream reads alternate, a decode first
DecodeReadAlternate ==
    /\ fPc = "decode" => fDecodes = fReads
    /\ fPc = "read" => fDecodes = fReads + 1
    /\ (fPc = "idle" /\ fResults # <<>>) =>
          /\ fDecodes >= 1
          /\ fDecodes = (IF fResults[Len(fResults)] \in {NextErr("UnexpectedEof"), NextErr("Io")}
                         THEN fReads ELSE fReads + 1)

\* The stream is left alone by this step
StreamUntouched == fPending' = fPending /\ fErrors' = fErrors

\* This step is one read of at most 1024 bytes, and what it returned, no more and
\* no less, is at the end of the buffer afterwards
OneBoundedRead ==
    /\ fReads' = fReads + 1
    /\ \E k \in 0..Min(1024, Len(fPending)) :
          /\ fPending' = SubSeq(fPending, k + 1, Len(fPending))
          /\ read_buffer' = read_buffer \o SubSeq(fPending, 1, k)

NextStep ==
    /\ (fPc = "idle" /\ fPc' # "idle") =>
          (fPc' = "decode" /\ StreamUntouched /\ fDecodes' = 0 /\ fReads' = 0)
    /\ fPc = "decode" => (StreamUntouched /\ fReads' = fReads /\ fDecodes' = fDecodes + 1)
    /\ fPc = "read" => (OneBoundedRead /\ fDecodes' = fDecodes)
    /\ (fPc = "decode" /\ fReads = 0 /\ fCodec = "Lines" /\ find(read_buffer, NEWLINE) # NONE) =>
          /\ fPc' = "idle"
          /\ fResults' = Append(fResults, NextOk(Slice(read_buffer, 0, find(read_buffer, NEWLINE))))

\* C12: next attempts a decode of the buffer before it touches the stream; between
\* two consecutive decode attempts it performs exactly one stream read, of at most
\* 1024 bytes, whose bytes and only those are appended to the buffer; so a call
\* that finds a complete message already buffered returns it with no stream read.
C12_DecodeBeforeRead == []DecodeReadAlternate /\ [][NextStep]_vars

\* The second call returned a line the first call's read had already buffered
C12_Witness ==
    /\ fCodec = "Lines"
    /\ fStream = <<97, NEWLINE, 98, NEWLINE>>
    /\ fResults = <<NextOk(<<97>>), NextOk(<<98>>)>>
    /\ fPc = "idle"
    /\ fDecodes = 1
    /\ fReads = 0

\* C13: when the codec's decode returns a structural error, next returns that error
\* to the caller at once and performs no stream read after the failing decode.
C13_DecodeErrorReturned ==
    /\ [](fDecoded = "Err" =>
            /\ fPc = "idle"
            /\ fResults # <<>>
            /\ fResults[Len(fResults)] = NextErr("Decode"))
    /\ [][fDecoded' = "Err" => (StreamUntouched /\ fReads' = fReads)]_vars

\* A decode error after one read brought a byte: the call returned it
C13_Witness ==
    /\ fCodec = "Any"
    /\ fDecoded = "Err"
    /\ fResults = <<NextErr("Decode")>>
    /\ fDecodes = 2
    /\ fReads = 1
    /\ read_buffer # <<>>
    /\ fPending # <<>>

InCall == fPc \in {"decode", "read"}

\* The call waits in read on a stream that is open, has nothing at hand and will
\* not fail
Blocked == fPc = "read" /\ fPending = <<>> /\ ~fCloses /\ fErrors = 0

\* The stream will still complete a line for the lines codec, or close
WillCompleteOrClose ==
    \/ fCloses
    \/ fCodec = "Lines" /\ find(read_buffer \o fPending, NEWLINE) # NONE

\* A step that ends a call is one of the four events, and returns what that event
\* carries; a step that ends no call returns nothing
ReturnsOnEvent ==
    /\ (InCall /\ fPc' = "idle") =>
          \/ /\ fPc = "decode" /\ fDecoded' = "Some"
             /\ Len(fResults') = Len(fResults) + 1
             /\ fResults'[Len(fResults')].kind = "Ok"
          \/ /\ fPc = "decode" /\ fDecoded' = "Err"
             /\ fResults' = Append(fResults, NextErr("Decode"))
          \/ /\ fPc = "read" /\ fErrors' = fErrors - 1 /\ fPending' = fPending
             /\ fResults' = Append(fResults, NextErr("Io"))
          \/ /\ fPc = "read" /\ fPending = <<>> /\ fCloses /\ fErrors' = fErrors
             /\ fResults' = Append(fResults, NextErr("UnexpectedEof"))
    /\ ~(InCall /\ fPc' = "idle") => fResults' = fResults

\* Bytes that complete no message keep the call going
GoesOnWithoutMessage ==
    /\ (fPc = "read" /\ fPending' # fPending) => fPc' = "decode"
    /\ (fPc = "decode" /\ fDecoded' = "None") => fPc' = "read"
    /\ (fPc = "decode" /\ fCodec = "Lines" /\ find(read_buffer, NEWLINE) = NONE) => fPc' = "read"
    /\ Blocked => Blocked'

NeverAMessage(results) == \A i \in 1..Len(results) : results[i].kind # "Ok"

\* C18: a call of next returns only when the codec yields a message, the codec
\* yields a decode error, a stream read fails, or a stream read returns zero bytes;
\* bytes that complete no message keep the call going, and on an open, silent
\* stream it never returns; if the stream completes a message or closes, the call
\* returns eventually.  With the SetupCodec next never returns a message.
C18_ReturnsOnlyOnEvents ==
    /\ [][ReturnsOnEvent /\ GoesOnWithoutMessage]_vars
    /\ [](fCodec = "Setup" => NeverAMessage(fResults))
    /\ ((InCall /\ WillCompleteOrClose) ~> (fPc = "idle"))

\* A call with the SetupCodec has read a whole line and waits for more, for ever
C18_Witness ==
    /\ fCodec = "Setup"
    /\ Blocked
    /\ fStream = <<97, NEWLINE>>
    /\ read_buffer = fStream
    /\ fResults = <<>>
    /\ fReads = 2

\* The messages among the results, in call order
RECURSIVE Messages(_)
Messages(results) ==
    IF results = <<>> THEN <<>>
    ELSE LET r == results[Len(results)]
             before == Messages(SubSeq(results, 1, Len(results) - 1))
         IN IF r.kind = "Ok" THEN Append(before, r.item) ELSE before

\* A read that ends the call in failure leaves the buffer as it was before it
FailedReadKeepsBuffer == (fPc = "read" /\ fPc' = "idle") => read_buffer' = read_buffer

\* C19: a call of next that fails because a stream read returned zero bytes or an
\* I/O error leaves the read buffer exactly as it was before that read, so a later
\* call resumes from the buffered partial message: with the lines codec the
\* messages returned over all calls, failed ones in between or not, are the lines
\* of the stream, in order and whole.
C19_FailedReadKeepsBuffer ==
    /\ [][FailedReadKeepsBuffer]_vars
    /\ [](fCodec = "Lines" =>
            /\ Len(Messages(fResults)) <= CompleteLines(fStream)
            /\ Messages(fResults) =
                  [i \in 1..Len(Messages(fResults)) |-> LineOf(fStream, i)])

\* The line of the long stream takes two reads.  The first call failed, and the
\* second returned the whole line after a single read: the first call's read had
\* been kept.
C19_Witness ==
    /\ fCodec = "Lines"
    /\ fStream = LongStream
    /\ Len(fResults) = 2
    /\ fResults[1] = NextErr("Io")
    /\ fResults[2] = NextOk(SubSeq(LongStream, 1, 1024))
    /\ fReads = 1

------------------------------------------------------------------------------
(* Properties of connection.rs *)

\* connect_to_display works on an address with a hostname or an explicit screen
UnsupportedAddress ==
    /\ cDisplay.kind = "Ok"
    /\ (cDisplay.hostname.some \/ cDisplay.screen.some)

\* The call is over, by a return or otherwise
CallOver == cPc \in {"returned", "panicked"}

\* C14: connect_to_display on an address that has a hostname or an explicit screen
\* is turned away before any I/O: on no path that starts with such an address is a
\* socket connect, read or write attempted, and no connection comes back.
C14_NoIoForUnsupportedAddress ==
    UnsupportedAddress =>
        /\ cIo = <<>>
        /\ cPc \in {"start", "checking", "panicked"}
        /\ cResult.kind # "Ok"

\* The call with an explicit screen ended without an I/O operation
C14_Witness ==
    /\ cEntry = "connect_to_display"
    /\ cDisplay = DisplayOk(None, 0, Some(0))
    /\ cSockets = {0}
    /\ CallOver
    /\ cIo = <<>>

\* C15: connect_to_display on a hostname-qualified or explicit-screen address
\* returns an Err to its caller, of a kind distinct from an I/O failure, rather
\* than aborting the caller.
C15_UnsupportedAddressIsErr ==
    (UnsupportedAddress /\ CallOver) =>
        /\ cPc = "returned"
        /\ cResult.kind = "Err"
        /\ cResult.error # Io

\* DISPLAY is set but from_str does not accept it, or it is not Unicode
EnvMalformed ==
    \/ cEnv = VarNotUnicode
    \/ cEnv.kind = "Ok" /\ from_str(cEnv.v).kind = "Err"

\* The one socket connect of the call was attempted and refused
ConnectRefused ==
    /\ Len(cIo) = 1
    /\ cIo[1].op = "connect"
    /\ cDisplay.display \notin cSockets

------------------------------------------------------------------------------
(* Properties of Display values *)

\* The text after the hostname and its colon
AfterHostname == SubSeq(vText, Len(IF vValue.hostname.some THEN vValue.hostname.v ELSE <<>>) + 2,
                        Len(vText))

\* t is the decimal numeral of n as a u16 is written
IsNumeralOf(t, n) == IsCanonicalU16(t) /\ NumeralValue(t) = n

\* The text carries a '.screen' segment after the display number
HasScreenSegment ==
    \E q \in 1..Len(AfterHostname) :
        /\ AfterHostname[q] = DOT
        /\ IsNumeralOf(SubSeq(AfterHostname, 1, q - 1), vValue.display)
        /\ IsNumeralOf(SubSeq(AfterHostname, q + 1, Len(AfterHostname)), vValue.screen.v)

\* C17: a Display keeps 'no screen' distinct from 'screen 0': formatting writes the
\* '.screen' segment if and only if the screen is present; parsing ':d' gives an
\* absent screen and parsing ':d.0' a present screen 0; and the default address
\* (no hostname, display 0, no screen) formats as ':0'.
C17_ScreenAbsentOrZero ==
    /\ vPc \in {"shown", "reparsed"} =>
          /\ vValue.screen.some => HasScreenSegment
          /\ ~vValue.screen.some => IsNumeralOf(AfterHostname, vValue.display)
          /\ vValue = Display_default => vText = <<COLON, ZERO>>
    /\ (vPc = "reparsed" /\ ~vValue.hostname.some) =>
          /\ vBack.kind = "Ok"
          /\ ~vValue.screen.some => vBack.screen = None
          /\ vValue.screen = Some(0) => (vBack.screen = Some(0) /\ vBack.screen # None)
    /\ Display_default = DisplayOk(None, 0, None)

\* ':7.0' was written for display 7 with screen 0 and parsed back with screen 0
C17_Witness ==
    /\ vValue = DisplayOk(None, 7, Some(0))
    /\ vPc = "reparsed"
    /\ vText = <<COLON, ZERO + 7, DOT, ZERO>>
    /\ vBack.screen = Some(0)

\* The hostname is absent, or non-empty and free of colons
PlainHostname ==
    \/ ~vValue.hostname.some
    \/ /\ vValue.hostname.v # <<>>
       /\ \A i \in 1..Len(vValue.hostname.v) : vValue.hostname.v[i] # COLON

\* C20: for every Display whose hostname is absent or a non-empty string without a
\* colon, from_str applied to its to_string output succeeds and yields the same
\* hostname, display and screen.
C20_FormatThenParse ==
    (vPc = "reparsed" /\ PlainHostname) =>
        /\ vBack.kind = "Ok"
        /\ vBack.hostname = vValue.hostname
        /\ vBack.display = vValue.display
        /\ vBack.screen = vValue.screen

\* A hostname with a dot in it, the largest display number and screen 0
C20_Witness ==
    /\ vValue = DisplayOk(Some(<<LETTER_H, DOT>>), 65535, Some(0))
    /\ vPc = "reparsed"
    /\ vBack = vValue

====
